---- MODULE Spec2Model ----
(***************************************************************************)
(* Model of src/src/components/WalletConnector.tsx: the wallet connection  *)
(* session of CardanoWalletConnector.                                      *)
(*                                                                         *)
(* The component runs on a single-threaded event loop.  Every handler runs *)
(* to its next await (or to its end) without interruption, so each action  *)
(* below is one such run: the start of onConnectWallet up to its first     *)
(* await, the resumption after each provider call or setTimeout, and each  *)
(* synchronous handler (buttons, outside click, disconnect, the widget's   *)
(* error callback).  React state setters are applied as one atomic update  *)
(* per run; a setter called twice in a run leaves the last value.          *)
(***************************************************************************)
EXTENDS Integers, Sequences, FiniteSets, TLC

VARIABLES
    walletState,      \* useState<WalletState>, line 173
    showWalletList,   \* useState(initiallyOpen), line 179
    connectionError,  \* useState<string | null>, line 180
    isConnecting,     \* useState(false), line 181
    pendingWallet,    \* useState<string | null>, line 182
    lastErrorRef,     \* useRef<{message, timestamp} | null>, line 184
    props,            \* the component's props, lines 160-172
    now,              \* Date.now()
    calls,            \* the invocations of onConnectWallet that are running
    trace,            \* what the observed invocation did
    onDisconnectCalls,\* the calls of onDisconnect() the last handler made
    shownLog          \* what a sequence of reports delivered to showError, and when

vars == <<walletState, showWalletList, connectionError, isConnecting,
          pendingWallet, lastErrorRef, props, now, calls, trace,
          onDisconnectCalls, shownLog>>

----------------------------------------------------------------------------
(* Bounds of the model *)

\* the clock stops advancing here
MaxNow == 2002
\* the deliveries to showError that ThrottleSpec follows in one behaviour
MaxShown == 3

----------------------------------------------------------------------------
(* Values *)

\* JavaScript null, for the string-or-null fields
Null == "<null>"
\* JavaScript null, for the CardanoWalletApi-or-null fields
NoApi == <<>>
\* lastErrorRef.current === null
NoLastError == [message |-> Null, timestamp |-> 0]

\* the names the wallet list offers (supportedWallets)
WalletNames == {"alpha", "beta"}
\* the keys of window.cardano
Installed == {"beta"}

\* The invocations of onConnectWallet that can overlap: the one whose history
\* is kept, and one more that starts while that one is suspended.
Calls == {"observed", "overlapping"}

\* the object the k-th enable() of invocation c resolves to: a new one each time
Handle(c, k) == <<c, k>>

\* a budget one attempt short
InitialRetriesTwo == 3 - 1

\* a budget one attempt long
InitialRetriesFour == 3 + 1

\* let retries = 3: line 284
InitialRetries == 3

\* a rejection with an Error instance
Thrown(m) == [isError |-> TRUE, message |-> m]
\* a rejection with a value that is not an Error instance
NotAnError == [isError |-> FALSE, message |-> "account changed"]

\* what enable() and getNetworkId() can reject with
EnableErrors == {Thrown("user declined")}
NetworkIdErrors == {Thrown("user declined")}
\* what getRewardAddresses() can reject with
QueryErrors == {Thrown("account changed"), Thrown("ACCOUNT CHANGED"),
                Thrown("user declined"), NotAnError}
\* what getNetworkId() can resolve to
NetworkIds == {0, 1, 2}
\* what getRewardAddresses() can resolve to
RewardLists == {<<>>, <<"stake1abc">>}
\* the messages ThrottleSpec reports
ReportMessages == {"X", "Y"}
\* what the widget can pass to onConnectError
WidgetErrors == {Thrown("Wallet Not Installed"), Thrown("Wrong Network"),
                 Thrown("user canceled")}
\* how far one step of the clock goes
TickSteps == {1000, 1001}

----------------------------------------------------------------------------
(* Strings *)

\* String.prototype.includes
Includes(s, sub) ==
    \E i \in 1..(Len(s) - Len(sub) + 1) : SubSeq(s, i, i + Len(sub) - 1) = sub

UpperCaseLetters == "ABCDEFGHIJKLMNOPQRSTUVWXYZ"
LowerCaseLetters == "abcdefghijklmnopqrstuvwxyz"

LowerChar(c) ==
    IF \E i \in 1..26 : SubSeq(UpperCaseLetters, i, i) = c
    THEN LET i == CHOOSE j \in 1..26 : SubSeq(UpperCaseLetters, j, j) = c
         IN  SubSeq(LowerCaseLetters, i, i)
    ELSE c

RECURSIVE ToLowerCase(_)
\* String.prototype.toLowerCase
ToLowerCase(s) ==
    IF Len(s) = 0 THEN ""
    ELSE LowerChar(SubSeq(s, 1, 1)) \o ToLowerCase(SubSeq(s, 2, Len(s)))

----------------------------------------------------------------------------
(* Messages *)

\* a message that leaves the name out
NotInstalledMessageUnnamed(walletName) ==
    "Wallet is not installed. Please install it from the official website."

NotInstalledMessage(walletName) ==
    walletName \o " wallet is not installed. Please install it from the official website."

\* the two expectations swapped
ExpectedNetworkIdSwapped == IF props.networkType = "MAINNET" THEN 0 ELSE 1

ExpectedNetworkId == IF props.networkType = "MAINNET" THEN 1 ELSE 0

ExpectedNetwork == IF props.networkType = "MAINNET" THEN "Mainnet" ELSE "Testnet"

NetworkMismatchMessage ==
    "Network mismatch: This app requires " \o ExpectedNetwork
        \o ". Please switch your wallet network."

\* error instanceof Error ? error.message : "Unknown error"
ErrorText(error) == IF error.isError THEN error.message ELSE "Unknown error"

\* the text onConnectError records, in place of the text of the catch block
ConnectErrorMessageWidgetStyle(walletName, error) ==
    "Error with " \o walletName \o ": " \o ErrorText(error)

ConnectErrorMessage(walletName, error) ==
    "Error connecting to " \o walletName \o ": " \o ErrorText(error)

\* a test that takes every rejection for an account change
IsAccountChangedAlways(error) == TRUE

\* the test of the inner catch block
IsAccountChanged(error) ==
    /\ error.isError
    /\ \/ Includes(error.message, "account changed")
       \/ Includes(error.message, "Account changed")

\* stakeAddresses?.[0] || null
FirstStakeAddress(stakeAddresses) ==
    IF Len(stakeAddresses) = 0 \/ stakeAddresses[1] = "" THEN Null
    ELSE stakeAddresses[1]

----------------------------------------------------------------------------
(* State *)

\* a rejection that did not happen
NoThrow == [isError |-> FALSE, message |-> Null]

\* the locals of one invocation of onConnectWallet; IdleCall when none runs
IdleCall ==
    [pc |-> "idle",             \* where the invocation is suspended
     walletName |-> Null,       \* the parameter
     walletApi |-> NoApi,       \* const walletApi, line 269
     retries |-> 0,             \* let retries, line 284
     newWalletApi |-> NoApi]    \* const newWalletApi, line 302

InFlight(c) == calls[c].pc # "idle"

\* handleSuccessfulConnect was not called
NotConnected == [walletName |-> Null, walletApi |-> NoApi, stakeAddress |-> Null]

\* what an invocation did, from its start to its end
NoTrace ==
    [walletName |-> Null,       \* the parameter
     enables |-> 0,             \* calls of window.cardano[walletName].enable()
     walletNetworkId |-> -1,    \* what getNetworkId() resolved to
     queries |-> <<>>,          \* calls of getRewardAddresses(), with their results
     waits |-> <<>>,            \* the setTimeout delays awaited
     reported |-> Null,         \* the message handed to showErrorOnce
     shown |-> <<>>,            \* what showErrorOnce delivered to showError
     error |-> NoThrow,         \* what the outer catch block caught
     connected |-> NotConnected,\* the arguments of handleSuccessfulConnect
     notified |-> <<>>,         \* the host callbacks called on success
     outcome |-> "none"]        \* how the invocation ended, "running" until then

\* The optional callbacks the host passes: lines 168, 169, 171.  Each is passed
\* by some host and left out by another.
HostCallbacks ==
    {[hasOnConnect |-> TRUE, hasNavigateOnConnect |-> TRUE, hasOnDisconnect |-> TRUE],
     [hasOnConnect |-> FALSE, hasNavigateOnConnect |-> TRUE, hasOnDisconnect |-> TRUE],
     [hasOnConnect |-> TRUE, hasNavigateOnConnect |-> FALSE, hasOnDisconnect |-> FALSE],
     [hasOnConnect |-> FALSE, hasNavigateOnConnect |-> FALSE, hasOnDisconnect |-> FALSE]}

Init ==
    /\ props \in {[networkType |-> networkType,
                    listLayout |-> listLayout,
                    hasOnConnect |-> host.hasOnConnect,
                    hasNavigateOnConnect |-> host.hasNavigateOnConnect,
                    hasOnDisconnect |-> host.hasOnDisconnect] :
                       networkType \in {"MAINNET", "TESTNET"},
                       listLayout \in {"dropdown", "flex"},
                       host \in HostCallbacks}
    /\ walletState = [isConnected |-> FALSE, walletName |-> Null,
                      walletApi |-> NoApi, stakeAddress |-> Null]
    /\ showWalletList \in BOOLEAN      \* initiallyOpen
    /\ connectionError = Null
    /\ isConnecting = FALSE
    /\ pendingWallet = Null
    /\ lastErrorRef = NoLastError
    /\ now = 0
    /\ calls = [c \in Calls |-> IdleCall]
    /\ trace = NoTrace
    /\ onDisconnectCalls = 0
    /\ shownLog = <<>>

isDropdownLayout == props.listLayout = "dropdown"

----------------------------------------------------------------------------
(* Helpers of the handlers *)

\* a condition that lets a repeat through at 1000 ms already
ShouldShowAtWindow(message) ==
    \/ lastErrorRef = NoLastError
    \/ lastErrorRef.message # message
    \/ now - lastErrorRef.timestamp >= 1000

\* the condition of showErrorOnce: line 199
ShouldShow(message) ==
    \/ lastErrorRef = NoLastError
    \/ lastErrorRef.message # message
    \/ now - lastErrorRef.timestamp > 1000

\* what showErrorOnce(message) delivers to showError: line 200
Shown(message) ==
    IF ShouldShow(message)
    THEN <<[message |-> message, timestamp |-> now]>>
    ELSE <<>>

\* showErrorOnce: lines 195-203
showErrorOnce(message) ==
    lastErrorRef' = IF ShouldShow(message)
                    THEN [message |-> message, timestamp |-> now]
                    ELSE lastErrorRef

\* a success that navigates even when onConnect was called
NotifiedBoth(walletName, walletApi, stakeAddress) ==
    (IF props.hasOnConnect
     THEN <<[callback |-> "onConnect", walletName |-> walletName,
             walletApi |-> walletApi, stakeAddress |-> stakeAddress,
             path |-> Null]>>
     ELSE <<>>)
    \o (IF props.hasNavigateOnConnect
        THEN <<[callback |-> "navigateOnConnect", walletName |-> Null,
                walletApi |-> NoApi, stakeAddress |-> Null, path |-> "/account"]>>
        ELSE <<>>)

\* what handleSuccessfulConnect calls of the host: lines 236-240
Notified(walletName, walletApi, stakeAddress) ==
    IF props.hasOnConnect
    THEN <<[callback |-> "onConnect", walletName |-> walletName,
            walletApi |-> walletApi, stakeAddress |-> stakeAddress,
            path |-> Null]>>
    ELSE IF props.hasNavigateOnConnect
    THEN <<[callback |-> "navigateOnConnect", walletName |-> Null,
            walletApi |-> NoApi, stakeAddress |-> Null, path |-> "/account"]>>
    ELSE <<>>

\* handleSuccessfulConnect: lines 226-241
handleSuccessfulConnect(walletName, walletApi, stakeAddress) ==
    /\ connectionError' = Null
    /\ showWalletList' = FALSE
    /\ walletState' = [isConnected |-> TRUE, walletName |-> walletName,
                       walletApi |-> walletApi, stakeAddress |-> stakeAddress]

\* a finally block that clears the marker and leaves the flag
FinallyKeepingFlag ==
    /\ isConnecting' = isConnecting
    /\ pendingWallet' = Null

\* the finally block: lines 321-324
Finally ==
    /\ isConnecting' = FALSE
    /\ pendingWallet' = Null

\* invocation c goes on with the locals call, having done tr so far
Continue(c, call, tr) ==
    /\ calls' = [calls EXCEPT ![c] = call]
    /\ trace' = IF c = "observed" THEN tr ELSE trace

\* invocation c returns, having done tr
Return(c, tr) == Continue(c, IdleCall, tr)

\* a catch block that drops the connection as well
CatchDisconnecting(c, error, tr) ==
    /\ connectionError' = ConnectErrorMessage(calls[c].walletName, error)
    /\ Finally
    /\ Return(c, [tr EXCEPT !.outcome = "Error", !.error = error])
    /\ walletState' = [isConnected |-> FALSE, walletName |-> Null,
                       walletApi |-> NoApi, stakeAddress |-> Null]
    /\ UNCHANGED <<showWalletList, lastErrorRef>>

\* the outer catch block and the finally block: lines 316-324
Catch(c, error, tr) ==
    /\ connectionError' = ConnectErrorMessage(calls[c].walletName, error)
    /\ Finally
    /\ Return(c, [tr EXCEPT !.outcome = "Error", !.error = error])
    /\ UNCHANGED <<walletState, showWalletList, lastErrorRef>>

\* a success that keeps the handle of the second enable() when there is one
SucceedWithNewWalletApi(c, stakeAddresses, tr) ==
    LET api == IF calls[c].newWalletApi # NoApi THEN calls[c].newWalletApi
               ELSE calls[c].walletApi
    IN  /\ handleSuccessfulConnect(calls[c].walletName, api,
                                   FirstStakeAddress(stakeAddresses))
        /\ Finally
        /\ Return(c, [tr EXCEPT !.outcome = "Connected",
                                !.connected =
                                    [walletName |-> calls[c].walletName,
                                     walletApi |-> api,
                                     stakeAddress |-> FirstStakeAddress(stakeAddresses)],
                                !.notified = Notified(calls[c].walletName, api,
                                                      FirstStakeAddress(stakeAddresses))])
        /\ UNCHANGED lastErrorRef

\* lines 313-315, then the finally block
Succeed(c, stakeAddresses, tr) ==
    /\ handleSuccessfulConnect(calls[c].walletName, calls[c].walletApi,
                               FirstStakeAddress(stakeAddresses))
    /\ Finally
    /\ Return(c, [tr EXCEPT !.outcome = "Connected",
                            !.connected =
                                [walletName |-> calls[c].walletName,
                                 walletApi |-> calls[c].walletApi,
                                 stakeAddress |-> FirstStakeAddress(stakeAddresses)],
                            !.notified = Notified(calls[c].walletName,
                                                  calls[c].walletApi,
                                                  FirstStakeAddress(stakeAddresses))])
    /\ UNCHANGED lastErrorRef

\* a call of getRewardAddresses() on api, and its result
Query(api, ok, value, error) ==
    [api |-> api, ok |-> ok, value |-> value, error |-> error]

\* the call is issued and awaited: its result is not known yet
Pending(api) == Query(api, FALSE, <<>>, NoThrow)

\* the trace with the result of its pending getRewardAddresses() filled in
Settled(ok, value, error) ==
    IF trace.queries = <<>> THEN trace
    ELSE [trace EXCEPT !.queries[Len(trace.queries)] = Query(@.api, ok, value, error)]

\* nothing but the invocations' locals and the trace changes
Suspended ==
    UNCHANGED <<walletState, showWalletList, connectionError, isConnecting,
                pendingWallet, lastErrorRef>>

----------------------------------------------------------------------------
(* onConnectWallet: lines 256-325 *)

\* The widget calls onConnect(walletName); the handler runs to its first await.
\* Lines 257-269.  The widget's callbacks are not tied to what the component
\* renders when they arrive.
onConnectWallet(c, walletName) ==
    /\ ~InFlight(c)
    /\ c = "overlapping" => InFlight("observed")
    /\ LET tr == [NoTrace EXCEPT !.walletName = walletName, !.outcome = "running"]
       IN  IF walletName \notin Installed
           THEN /\ showErrorOnce(NotInstalledMessage(walletName))
                /\ isConnecting' = FALSE
                /\ pendingWallet' = Null
                /\ connectionError' = Null
                /\ Return(c, [tr EXCEPT !.outcome = "NotInstalled",
                                        !.reported = NotInstalledMessage(walletName),
                                        !.shown = Shown(NotInstalledMessage(walletName))])
           ELSE /\ isConnecting' = TRUE
                /\ pendingWallet' = walletName
                /\ connectionError' = Null
                /\ Continue(c, [IdleCall EXCEPT !.pc = "enable",
                                                !.walletName = walletName],
                            [tr EXCEPT !.enables = 1])
                /\ UNCHANGED lastErrorRef
    /\ UNCHANGED <<walletState, showWalletList, props, now, shownLog>>
    /\ onDisconnectCalls' = 0

\* enable() settles; on success getNetworkId() is called.  Lines 269-271.
AfterEnable(c) ==
    /\ calls[c].pc = "enable"
    /\ \/ /\ Continue(c, [calls[c] EXCEPT !.walletApi = Handle(c, 1),
                                          !.pc = "networkId"], trace)
          /\ Suspended
       \/ \E error \in EnableErrors : Catch(c, error, trace)
    /\ UNCHANGED <<props, now, shownLog>>
    /\ onDisconnectCalls' = 0

\* getNetworkId() settles; on a match the 100 ms timer is started.  Lines 271-282.
AfterGetNetworkId(c) ==
    /\ calls[c].pc = "networkId"
    /\ \/ \E walletNetworkId \in NetworkIds :
            LET tr == [trace EXCEPT !.walletNetworkId = walletNetworkId]
            IN  IF walletNetworkId # ExpectedNetworkId
                THEN /\ showErrorOnce(NetworkMismatchMessage)
                     /\ isConnecting' = FALSE
                     /\ pendingWallet' = Null
                     /\ Return(c, [tr EXCEPT !.outcome = "WrongNetwork",
                                             !.reported = NetworkMismatchMessage,
                                             !.shown = Shown(NetworkMismatchMessage)])
                     /\ UNCHANGED <<walletState, showWalletList, connectionError>>
                ELSE /\ Continue(c, [calls[c] EXCEPT !.pc = "settle"], tr)
                     /\ Suspended
       \/ \E error \in NetworkIdErrors : Catch(c, error, trace)
    /\ UNCHANGED <<props, now, shownLog>>
    /\ onDisconnectCalls' = 0

\* The 100 ms timer fires; the loop is entered and getRewardAddresses() is
\* called on walletApi.  Lines 282-288.
AfterSettle(c) ==
    /\ calls[c].pc = "settle"
    /\ Continue(c, [calls[c] EXCEPT !.pc = "query", !.retries = InitialRetries],
                [trace EXCEPT !.waits = Append(@, 100),
                              !.queries = Append(@, Pending(calls[c].walletApi))])
    /\ Suspended
    /\ UNCHANGED <<props, now, shownLog>>
    /\ onDisconnectCalls' = 0

\* getRewardAddresses() on walletApi settles.  Lines 288-311, then 313-315.
AfterGetRewardAddresses(c) ==
    /\ calls[c].pc = "query"
    /\ \/ \E stakeAddresses \in RewardLists :
            Succeed(c, stakeAddresses, Settled(TRUE, stakeAddresses, NoThrow))
       \/ \E error \in QueryErrors :
            LET retries == calls[c].retries - 1
                tr == Settled(FALSE, <<>>, error)
            IN  IF IsAccountChanged(error)
                THEN /\ IF retries > 0
                        THEN Continue(c, [calls[c] EXCEPT !.pc = "backoff",
                                                          !.retries = retries], tr)
                        ELSE Continue(c, [calls[c] EXCEPT !.pc = "reEnable",
                                                          !.retries = retries],
                                      [tr EXCEPT !.enables = @ + 1])
                     /\ Suspended
                ELSE Catch(c, error, tr)
    /\ UNCHANGED <<props, now, shownLog>>
    /\ onDisconnectCalls' = 0

\* The 500 ms timer fires; the loop continues with another
\* getRewardAddresses() on walletApi.  Lines 299-300, 286-288.
AfterBackoff(c) ==
    /\ calls[c].pc = "backoff"
    /\ LET tr == [trace EXCEPT !.waits = Append(@, 500)]
       IN  IF calls[c].retries > 0
           THEN /\ Continue(c, [calls[c] EXCEPT !.pc = "query"],
                            [tr EXCEPT !.queries =
                                 Append(@, Pending(calls[c].walletApi))])
                /\ Suspended
           ELSE Succeed(c, <<>>, tr)
    /\ UNCHANGED <<props, now, shownLog>>
    /\ onDisconnectCalls' = 0

\* The second enable() settles; on success the 200 ms timer is started.
\* Lines 302-303.
AfterReEnable(c) ==
    /\ calls[c].pc = "reEnable"
    /\ \/ /\ Continue(c, [calls[c] EXCEPT !.newWalletApi = Handle(c, 2),
                                          !.pc = "reSettle"], trace)
          /\ Suspended
       \/ \E error \in EnableErrors : Catch(c, error, trace)
    /\ UNCHANGED <<props, now, shownLog>>
    /\ onDisconnectCalls' = 0

\* The 200 ms timer fires; getRewardAddresses() is called on newWalletApi.
\* Lines 303-304.
AfterReSettle(c) ==
    /\ calls[c].pc = "reSettle"
    /\ Continue(c, [calls[c] EXCEPT !.pc = "finalQuery"],
                [trace EXCEPT !.waits = Append(@, 200),
                              !.queries = Append(@, Pending(calls[c].newWalletApi))])
    /\ Suspended
    /\ UNCHANGED <<props, now, shownLog>>
    /\ onDisconnectCalls' = 0

\* getRewardAddresses() on newWalletApi settles: inside the catch block, so a
\* rejection leaves the loop for the outer catch.  Lines 304-305, then 313-315.
AfterFinalGetRewardAddresses(c) ==
    /\ calls[c].pc = "finalQuery"
    /\ \/ \E stakeAddresses \in RewardLists :
            Succeed(c, stakeAddresses, Settled(TRUE, stakeAddresses, NoThrow))
       \/ \E error \in QueryErrors :
            Catch(c, error, Settled(FALSE, <<>>, error))
    /\ UNCHANGED <<props, now, shownLog>>
    /\ onDisconnectCalls' = 0

----------------------------------------------------------------------------
(* The other handlers *)

\* The Connect button is rendered while the wallet is not connected; in the
\* flex layout only while the list is closed.  Lines 408, 447-456, 467-488,
\* 513-522, 533, 564-570.
ConnectButtonRendered ==
    /\ ~walletState.isConnected
    /\ isDropdownLayout \/ ~showWalletList

\* a Connect button that stays enabled while connecting
ConnectButtonNeverDisabled == FALSE

\* a Connect button disabled by the open list, not by the connection attempt
ConnectButtonDisabledWhenOpen == showWalletList

\* disabled={isConnecting}: lines 452, 485, 519, 567
ConnectButtonDisabled == isConnecting

\* openWalletList: lines 205-214
openWalletList ==
    /\ connectionError' = Null
    /\ pendingWallet' = Null
    /\ showWalletList' = IF isDropdownLayout THEN ~showWalletList ELSE TRUE
    /\ UNCHANGED <<walletState, isConnecting, lastErrorRef, props, now, calls, trace,
                   shownLog>>
    /\ onDisconnectCalls' = 0

\* a click on the Connect button: a disabled button dispatches no click
ClickConnectButton ==
    /\ ConnectButtonRendered
    /\ IF ConnectButtonDisabled THEN UNCHANGED vars ELSE openWalletList

\* The Close button is rendered in the flex layout while the list is open and
\* the wallet is not connected.  Lines 408, 467, 490-504, 533-546.
CloseButtonRendered ==
    /\ ~walletState.isConnected
    /\ ~isDropdownLayout
    /\ showWalletList

\* disabled={isConnecting}: lines 500, 542
CloseButtonDisabled == isConnecting

\* a closeWalletList without its guard
closeWalletListUnguarded ==
    /\ showWalletList' = FALSE
    /\ connectionError' = Null
    /\ pendingWallet' = Null
    /\ UNCHANGED <<walletState, isConnecting, lastErrorRef, props, now,
                   calls, trace, shownLog>>
    /\ onDisconnectCalls' = 0

\* closeWalletList: lines 216-224
closeWalletList ==
    IF isConnecting
    THEN UNCHANGED vars
    ELSE /\ showWalletList' = FALSE
         /\ connectionError' = Null
         /\ pendingWallet' = Null
         /\ UNCHANGED <<walletState, isConnecting, lastErrorRef, props, now,
                        calls, trace, shownLog>>
         /\ onDisconnectCalls' = 0

\* a click on the Close button
ClickCloseButton ==
    /\ CloseButtonRendered
    /\ IF CloseButtonDisabled THEN UNCHANGED vars ELSE closeWalletList

\* A mousedown outside dropdownRef's element; the listener is installed in the
\* dropdown layout only, and the ref is null while the Disconnect button is
\* what is rendered.  Lines 357-376, 408-419.
handleClickOutside ==
    /\ isDropdownLayout
    /\ ~walletState.isConnected
    /\ showWalletList' = FALSE
    /\ connectionError' = Null
    /\ UNCHANGED <<walletState, isConnecting, pendingWallet, lastErrorRef, props,
                   now, calls, trace, shownLog>>
    /\ onDisconnectCalls' = 0

\* a disconnect that keeps the handle in the session
handleDisconnectKeepingHandle ==
    /\ walletState' = [walletState EXCEPT !.isConnected = FALSE]
    /\ UNCHANGED <<showWalletList, connectionError, isConnecting, pendingWallet,
                   lastErrorRef, props, now, calls, trace, shownLog>>
    /\ onDisconnectCalls' = IF props.hasOnDisconnect THEN 1 ELSE 0

\* a disconnect that abandons the invocations that are suspended
handleDisconnectCancelling ==
    /\ walletState' = [isConnected |-> FALSE, walletName |-> Null,
                       walletApi |-> NoApi, stakeAddress |-> Null]
    /\ calls' = [c \in Calls |-> IdleCall]
    /\ UNCHANGED <<showWalletList, connectionError, isConnecting, pendingWallet,
                   lastErrorRef, props, now, trace, shownLog>>
    /\ onDisconnectCalls' = IF props.hasOnDisconnect THEN 1 ELSE 0

\* handleDisconnect, from the Disconnect button or from the ref's disconnect():
\* lines 243-254, 189-193, 411-416
handleDisconnect ==
    /\ walletState' = [isConnected |-> FALSE, walletName |-> Null,
                       walletApi |-> NoApi, stakeAddress |-> Null]
    /\ UNCHANGED <<showWalletList, connectionError, isConnecting, pendingWallet,
                   lastErrorRef, props, now, calls, trace, shownLog>>
    /\ onDisconnectCalls' = IF props.hasOnDisconnect THEN 1 ELSE 0

\* the message of the widget's network branch: line 345
WidgetNetworkMismatchMessage ==
    "Network mismatch: This app requires " \o ExpectedNetwork
        \o ". Please switch your wallet to " \o ExpectedNetwork \o " and try again."

\* the branch onConnectError takes for a message: lines 330-348
WidgetErrorBranch(message) ==
    LET errorMessage == ToLowerCase(message)
    IN  IF \/ Includes(errorMessage, "not installed")
           \/ Includes(errorMessage, "not found")
           \/ Includes(errorMessage, "not available")
           \/ Includes(errorMessage, "no wallet")
        THEN "notInstalled"
        ELSE IF \/ Includes(errorMessage, "wrong network")
                \/ Includes(errorMessage, "network type")
                \/ Includes(errorMessage, "mainnet")
                \/ Includes(errorMessage, "testnet")
        THEN "wrongNetwork"
        ELSE "other"

\* the branch of each error the widget can pass
WidgetErrorBranches == [error \in WidgetErrors |-> WidgetErrorBranch(error.message)]

\* onConnectError: lines 327-355
onConnectError(walletName, error) ==
    /\ CASE WidgetErrorBranches[error] = "notInstalled" ->
              /\ showErrorOnce(NotInstalledMessage(walletName))
              /\ UNCHANGED connectionError
         [] WidgetErrorBranches[error] = "wrongNetwork" ->
              /\ showErrorOnce(WidgetNetworkMismatchMessage)
              /\ connectionError' = WidgetNetworkMismatchMessage
         [] OTHER ->
              /\ showErrorOnce("Error connecting to " \o walletName \o ": "
                                  \o error.message)
              /\ connectionError' = "Error with " \o walletName \o ": "
                                       \o error.message
    /\ isConnecting' = FALSE
    /\ pendingWallet' = Null
    /\ UNCHANGED <<walletState, showWalletList, props, now, calls, trace, shownLog>>
    /\ onDisconnectCalls' = 0

\* time passes
Tick ==
    /\ \E d \in TickSteps : now + d <= MaxNow /\ now' = now + d
    /\ UNCHANGED <<walletState, showWalletList, connectionError, isConnecting,
                   pendingWallet, lastErrorRef, props, calls, trace, shownLog>>
    /\ onDisconnectCalls' = 0

----------------------------------------------------------------------------
(* Specification *)

Next ==
    \/ \E c \in Calls, walletName \in WalletNames : onConnectWallet(c, walletName)
    \/ \E c \in Calls : AfterEnable(c)
    \/ \E c \in Calls : AfterGetNetworkId(c)
    \/ \E c \in Calls : AfterSettle(c)
    \/ \E c \in Calls : AfterGetRewardAddresses(c)
    \/ \E c \in Calls : AfterBackoff(c)
    \/ \E c \in Calls : AfterReEnable(c)
    \/ \E c \in Calls : AfterReSettle(c)
    \/ \E c \in Calls : AfterFinalGetRewardAddresses(c)
    \/ ClickConnectButton
    \/ ClickCloseButton
    \/ handleClickOutside
    \/ handleDisconnect
    \/ \E walletName \in WalletNames, error \in WidgetErrors :
           onConnectError(walletName, error)

\* The component, its provider, its widget, its user and its host.  The clock
\* is read by showErrorOnce alone, and what showErrorOnce keeps is read by
\* nothing else, so the clock stands still here and runs in ThrottleSpec.
Spec == Init /\ [][Next]_vars

\* a report to the throttle: showErrorOnce(message), with what it delivers kept
Report(message) ==
    /\ Len(shownLog) < MaxShown
    /\ showErrorOnce(message)
    /\ shownLog' = shownLog \o Shown(message)
    /\ UNCHANGED <<walletState, showWalletList, connectionError, isConnecting,
                   pendingWallet, props, now, calls, trace>>
    /\ onDisconnectCalls' = 0

NextThrottle ==
    \/ \E message \in ReportMessages : Report(message)
    \/ Tick

\* showErrorOnce under any sequence of reports and any passing of time
ThrottleSpec == Init /\ [][NextThrottle]_vars

\* an awaited provider call settles, or an awaited timer fires
Resume(c) ==
    \/ AfterEnable(c)
    \/ AfterGetNetworkId(c)
    \/ AfterSettle(c)
    \/ AfterGetRewardAddresses(c)
    \/ AfterBackoff(c)
    \/ AfterReEnable(c)
    \/ AfterReSettle(c)
    \/ AfterFinalGetRewardAddresses(c)

NextNegotiation ==
    \/ \E walletName \in WalletNames : onConnectWallet("observed", walletName)
    \/ AfterEnable("observed")
    \/ AfterGetNetworkId("observed")
    \/ AfterSettle("observed")
    \/ AfterGetRewardAddresses("observed")
    \/ AfterBackoff("observed")
    \/ AfterReEnable("observed")
    \/ AfterReSettle("observed")
    \/ AfterFinalGetRewardAddresses("observed")

\* One invocation of onConnectWallet at a time, with a provider that answers
\* every call and timers that fire.
NegotiationSpec ==
    Init /\ [][NextNegotiation]_vars /\ WF_vars(Resume("observed"))

----------------------------------------------------------------------------
(* The session: claims C1 to C3 *)

\* C1: at most one invocation of onConnectWallet is in flight in every
\* reachable state: a selection made while an earlier invocation is suspended
\* does not start a second one.
OneNegotiationInFlight == Cardinality({c \in Calls : InFlight(c)}) <= 1

\* C2, as the specification states it: the handle and the stake address are
\* both present exactly when the session is connected.
HandleAndStakeAddressIffConnected ==
    (walletState.walletApi # NoApi /\ walletState.stakeAddress # Null)
        <=> walletState.isConnected

\* C2, amended: the handle is present exactly when the session is connected,
\* and the stake address is present only when it is connected; it is absent
\* in a connected session whose provider returned no reward address.
HandleIffConnected ==
    /\ walletState.walletApi # NoApi <=> walletState.isConnected
    /\ walletState.stakeAddress # Null => walletState.isConnected

\* a connected session without a stake address
ConnectedWithoutStakeAddress ==
    /\ walletState.isConnected
    /\ walletState.walletApi # NoApi
    /\ walletState.stakeAddress = Null
    /\ trace.outcome = "Connected"
    /\ trace.queries[Len(trace.queries)].value = <<>>

\* C3: a provider name is present exactly when the session is connecting or
\* connected: the pending-provider marker exactly while connecting, the
\* connected wallet's name exactly while connected.
ProviderNameIffConnectingOrConnected ==
    /\ pendingWallet # Null <=> isConnecting
    /\ walletState.walletName # Null <=> walletState.isConnected

\* connecting, with the Connect button disabled and the marker set
ConnectingWithPendingWallet ==
    /\ isConnecting
    /\ pendingWallet = "beta"
    /\ ConnectButtonRendered
    /\ ~walletState.isConnected

----------------------------------------------------------------------------
(* The reward-address fetch: claims C4 to C6 *)

\* the i-th getRewardAddresses() of the observed invocation was rejected with
\* an Error whose message is "account changed"
AccountChangedAt(i) ==
    /\ i <= Len(trace.queries)
    /\ ~trace.queries[i].ok
    /\ trace.queries[i].error = Thrown("account changed")

\* the rejections that have nothing of "account changed" in their message
UnrelatedErrors ==
    {error \in QueryErrors :
        /\ error.isError
        /\ ~Includes(ToLowerCase(error.message), "account changed")}

\* C4: when getRewardAddresses() is rejected with "account changed" exactly
\* twice and then resolves, the invocation has made exactly three queries, all
\* on the handle of the first enable(), has waited 100, 500 and 500 ms, has
\* called enable() no second time, and connects with the first address of
\* the list the third query resolved to.
TwoAccountChangesThenSuccess ==
    (/\ AccountChangedAt(1)
     /\ AccountChangedAt(2)
     /\ Len(trace.queries) >= 3
     /\ trace.queries[3].ok)
    => /\ Len(trace.queries) = 3
       /\ \A i \in 1..3 : trace.queries[i].api = Handle("observed", 1)
       /\ trace.enables = 1
       /\ trace.waits = <<100, 500, 500>>
       /\ trace.outcome = "Connected"
       /\ trace.connected =
              [walletName |-> trace.walletName,
               walletApi |-> Handle("observed", 1),
               stakeAddress |-> FirstStakeAddress(trace.queries[3].value)]

\* two rejections with "account changed", then a list with an address
ConnectedAtThirdQuery ==
    /\ AccountChangedAt(1)
    /\ AccountChangedAt(2)
    /\ Len(trace.queries) = 3
    /\ trace.queries[3].ok
    /\ trace.queries[3].value = <<"stake1abc">>
    /\ trace.outcome = "Connected"

\* every query on the handle of the first enable() was rejected with
\* "account changed"
OriginalHandleExhausted ==
    AccountChangedAt(1) /\ AccountChangedAt(2) /\ AccountChangedAt(3)

\* what holds of the observed invocation once the original handle is exhausted,
\* whatever the second enable() does
ExhaustedThenReEnabled ==
    OriginalHandleExhausted
    => /\ \A i \in 1..3 : trace.queries[i].api = Handle("observed", 1)
       /\ trace.enables = 2
       /\ Len(trace.queries) <= 4
       /\ Len(trace.queries) = 4
            => /\ trace.queries[4].api = Handle("observed", 2)
               /\ trace.waits = <<100, 500, 500, 200>>
       /\ trace.outcome = "Connected"
            => /\ Len(trace.queries) = 4
               /\ trace.queries[4].ok
               /\ trace.connected.stakeAddress =
                      FirstStakeAddress(trace.queries[4].value)
       /\ trace.outcome \in {"running", "Connected", "Error"}

\* C5, as the specification states it: once every query on the original
\* handle was rejected with "account changed", the invocation ends only after
\* one query on the handle of a second enable(), with that query's result.
ExhaustedThenOneFinalQuery ==
    /\ ExhaustedThenReEnabled
    /\ (OriginalHandleExhausted /\ trace.outcome # "running")
       => /\ Len(trace.queries) = 4
          /\ trace.outcome = "Error"
               => ~trace.queries[4].ok /\ trace.error = trace.queries[4].error

\* C5, amended: once every query on the original handle was rejected with
\* "account changed" (three queries), enable() is called exactly once more;
\* if it resolves, exactly one query is made on the new handle after 200 ms
\* and the invocation ends with that query's result, success or failure,
\* without a further retry; if it is rejected, the invocation ends with that
\* rejection and no further query.  The invocation always ends.
ExhaustedThenFinalQueryOrReEnableFailure ==
    /\ [](/\ ExhaustedThenReEnabled
          /\ (OriginalHandleExhausted /\ trace.outcome = "Error")
             => \/ /\ Len(trace.queries) = 4
                   /\ ~trace.queries[4].ok
                   /\ trace.error = trace.queries[4].error
                \/ /\ Len(trace.queries) = 3
                   /\ trace.error \in EnableErrors)
    /\ (trace.outcome = "running") ~> (trace.outcome # "running")

\* the final query on the new handle was rejected, and the invocation is over
FinalQueryRejected ==
    /\ OriginalHandleExhausted
    /\ Len(trace.queries) = 4
    /\ trace.queries[4].api = Handle("observed", 2)
    /\ ~trace.queries[4].ok
    /\ trace.outcome = "Error"

\* C6: when a getRewardAddresses() is rejected with a message unrelated to
\* "account changed", at whichever attempt, that query is the invocation's
\* last, no timer was awaited and no enable() called after it, and the
\* rejection is what the invocation ends with.
UnrelatedFailurePropagated ==
    \A i \in 1..Len(trace.queries) :
        (~trace.queries[i].ok /\ trace.queries[i].error \in UnrelatedErrors)
        => /\ Len(trace.queries) = i
           /\ Len(trace.waits) = i
           /\ trace.enables = (IF i = 4 THEN 2 ELSE 1)
           /\ trace.outcome = "Error"
           /\ trace.error = trace.queries[i].error
           /\ trace.connected = NotConnected

\* an unrelated rejection of the second query, after one backoff
UnrelatedFailureAtSecondQuery ==
    /\ Len(trace.queries) = 2
    /\ AccountChangedAt(1)
    /\ ~trace.queries[2].ok
    /\ trace.queries[2].error \in UnrelatedErrors
    /\ trace.outcome = "Error"

----------------------------------------------------------------------------
(* The error throttle: claim C7 *)

\* C7, the part that does not hold: the same message is never delivered to
\* showError twice within 1000 ms.
SameMessageNeverTwiceWithinWindow ==
    \A i, j \in 1..Len(shownLog) :
        (i < j /\ shownLog[i].message = shownLog[j].message)
        => shownLog[j].timestamp - shownLog[i].timestamp > 1000

\* C7, amended: a report is delivered to showError, and the remembered pair
\* replaced by it, exactly when no message is remembered, or the message
\* differs from the remembered one, or it is the same and more than 1000 ms
\* have passed since the remembered timestamp; otherwise nothing is delivered
\* and the pair is kept.  Hence two deliveries of the same message with no
\* delivery of another message between them are more than 1000 ms apart.
EmittedExactlyWhenNewOrExpired ==
    /\ [][\A message \in ReportMessages :
            Report(message)
            => IF \/ lastErrorRef = NoLastError
                  \/ lastErrorRef.message # message
                  \/ now - lastErrorRef.timestamp > 1000
               THEN /\ shownLog' = Append(shownLog, [message |-> message,
                                                     timestamp |-> now])
                    /\ lastErrorRef' = [message |-> message, timestamp |-> now]
               ELSE /\ shownLog' = shownLog
                    /\ lastErrorRef' = lastErrorRef]_vars
    /\ [](\A i \in 1..(Len(shownLog) - 1) :
            shownLog[i].message = shownLog[i + 1].message
            => shownLog[i + 1].timestamp - shownLog[i].timestamp > 1000)

\* the same message delivered again once 1001 ms have passed
DeliveredAgainAfterWindow ==
    /\ Len(shownLog) = 2
    /\ shownLog[1].message = shownLog[2].message
    /\ shownLog[2].timestamp - shownLog[1].timestamp = 1001
    /\ lastErrorRef = shownLog[2]

----------------------------------------------------------------------------
(* The failures of the negotiation: claims C8 to C10 *)

\* C8: an invocation for a name that is not a key of window.cardano ends as
\* not installed: it hands "<name> wallet is not installed. Please install it
\* from the official website." to showErrorOnce, calls enable() not once,
\* and does not connect.
AbsentProviderNotInstalled ==
    (trace.walletName \in WalletNames \ Installed)
    => /\ trace.outcome = "NotInstalled"
       /\ trace.reported = trace.walletName
              \o " wallet is not installed. Please install it from the official website."
       /\ Includes(trace.reported, trace.walletName)
       /\ trace.enables = 0
       /\ trace.queries = <<>>
       /\ trace.connected = NotConnected
       /\ trace.notified = <<>>

\* an invocation for "alpha", which is not installed, has ended
AlphaNotInstalled ==
    /\ trace.walletName = "alpha"
    /\ trace.outcome = "NotInstalled"
    /\ ~walletState.isConnected

\* C9: when getNetworkId() resolves to an id other than the configured one (1
\* for MAINNET, 0 for TESTNET), the invocation ends as a wrong network: it
\* hands "Network mismatch: This app requires <Mainnet|Testnet>. Please
\* switch your wallet network." to showErrorOnce, calls
\* getRewardAddresses() not once, calls no onConnect and does not connect.
NetworkMismatchWrongNetwork ==
    (/\ trace.walletNetworkId # -1
     /\ trace.walletNetworkId # (IF props.networkType = "MAINNET" THEN 1 ELSE 0))
    => /\ trace.outcome = "WrongNetwork"
       /\ trace.reported = "Network mismatch: This app requires "
              \o (IF props.networkType = "MAINNET" THEN "Mainnet" ELSE "Testnet")
              \o ". Please switch your wallet network."
       /\ trace.queries = <<>>
       /\ trace.enables = 1
       /\ trace.connected = NotConnected
       /\ trace.notified = <<>>

\* the wallet is on the main network and the component expects the test one
MainnetWalletOnTestnet ==
    /\ props.networkType = "TESTNET"
    /\ trace.walletNetworkId = 1
    /\ trace.outcome = "WrongNetwork"
    /\ props.hasOnConnect
    /\ ~walletState.isConnected

\* C10: a failed negotiation leaves its message in connectionError when it
\* ends: the invocation for a name that is not installed leaves the session
\* not connecting with connectionError containing "<name> wallet is not
\* installed", and a network id of 1 under TESTNET leaves connectionError
\* containing "Network mismatch" and "Testnet".
FailureRecordedInConnectionError ==
    [][/\ \A walletName \in WalletNames \ Installed :
              onConnectWallet("observed", walletName)
              => /\ ~isConnecting'
                 /\ Includes(connectionError', walletName \o " wallet is not installed")
       /\ (/\ AfterGetNetworkId("observed")
           /\ props.networkType = "TESTNET"
           /\ trace'.walletNetworkId = 1)
          => /\ Includes(connectionError', "Network mismatch")
             /\ Includes(connectionError', "Testnet")]_vars

----------------------------------------------------------------------------
(* Surfacing and the host's callbacks: claims C11 to C13 *)

\* C11: every invocation that ends in a failure (a rejection of enable(), of
\* getNetworkId() or of a getRewardAddresses() that is not retried, a wallet
\* that is not installed, a network mismatch) has handed a message to
\* showErrorOnce, which delivered it to showError unless it repeated the
\* remembered message within 1000 ms.
EveryFailureSurfaced ==
    trace.outcome \in {"NotInstalled", "WrongNetwork", "Error"}
    => /\ trace.reported # Null
       /\ Len(trace.shown) <= 1
       /\ \A i \in 1..Len(trace.shown) : trace.shown[i].message = trace.reported

\* C12: a disconnect of a connected session clears the handle, the stake
\* address and the wallet's name, leaves the session not connected and calls
\* onDisconnect once; a disconnect of a session that is not connected changes
\* nothing and does not call onDisconnect.
DisconnectNotifiesOnlyWhenConnected ==
    [][handleDisconnect
       => /\ walletState' = [isConnected |-> FALSE, walletName |-> Null,
                             walletApi |-> NoApi, stakeAddress |-> Null]
          /\ walletState.isConnected
               => onDisconnectCalls' = (IF props.hasOnDisconnect THEN 1 ELSE 0)
          /\ ~walletState.isConnected
               => onDisconnectCalls' = 0]_vars

\* C13: an invocation that connects calls onConnect exactly once, with the
\* wallet's name, the handle and the stake address (or null) the session was
\* given; without an onConnect prop it calls navigateOnConnect("/account")
\* instead, and never both; an invocation that does not connect calls neither.
OnConnectOncePerSuccess ==
    IF trace.outcome = "Connected"
    THEN /\ trace.connected.walletName = trace.walletName
         /\ trace.connected.walletApi # NoApi
         /\ props.hasOnConnect
              => trace.notified =
                     <<[callback |-> "onConnect",
                        walletName |-> trace.walletName,
                        walletApi |-> trace.connected.walletApi,
                        stakeAddress |-> trace.connected.stakeAddress,
                        path |-> Null]>>
         /\ (~props.hasOnConnect /\ props.hasNavigateOnConnect)
              => trace.notified =
                     <<[callback |-> "navigateOnConnect", walletName |-> Null,
                        walletApi |-> NoApi, stakeAddress |-> Null,
                        path |-> "/account"]>>
         /\ (~props.hasOnConnect /\ ~props.hasNavigateOnConnect)
              => trace.notified = <<>>
    ELSE trace.notified = <<>>

\* a success under a host that passes both onConnect and navigateOnConnect
ConnectedWithBothCallbacks ==
    /\ trace.outcome = "Connected"
    /\ props.hasOnConnect
    /\ props.hasNavigateOnConnect
    /\ Len(trace.notified) = 1
    /\ trace.notified[1].callback = "onConnect"
    /\ trace.notified[1].stakeAddress = "stake1abc"

----------------------------------------------------------------------------
(* The session's transitions: claims C14 to C17 *)

NextSession ==
    \/ \E walletName \in WalletNames : onConnectWallet("observed", walletName)
    \/ AfterEnable("observed")
    \/ AfterGetNetworkId("observed")
    \/ AfterSettle("observed")
    \/ AfterGetRewardAddresses("observed")
    \/ AfterBackoff("observed")
    \/ AfterReEnable("observed")
    \/ AfterReSettle("observed")
    \/ AfterFinalGetRewardAddresses("observed")
    \/ ClickConnectButton
    \/ ClickCloseButton
    \/ handleClickOutside
    \/ handleDisconnect
    \/ \E walletName \in WalletNames, error \in WidgetErrors :
           onConnectError(walletName, error)

\* The component with its user, widget and host, one invocation of
\* onConnectWallet at a time, a provider that answers every call and timers
\* that fire.
SessionSpec ==
    Init /\ [][NextSession]_vars /\ WF_vars(Resume("observed"))

OnlyDisconnectLeavesConnected ==
    [][(walletState.isConnected /\ ~walletState'.isConnected)
       => handleDisconnect]_vars

\* an invocation has failed while the session was connected, and it still is
FailedWhileConnected ==
    /\ walletState.isConnected
    /\ trace.outcome = "Error"
    /\ connectionError = "Error connecting to beta: user declined"

\* C16: closeWalletList run while isConnecting changes nothing: the list stays
\* as it is, connectionError and pendingWallet are untouched.  Run in any
\* other state it closes the list and clears connectionError and
\* pendingWallet, and touches nothing else of the session.
CloseIgnoredWhileConnecting ==
    IF isConnecting
    THEN ~ENABLED (/\ closeWalletList
                   /\ <<walletState, showWalletList, connectionError,
                        isConnecting, pendingWallet, lastErrorRef>>'
                      # <<walletState, showWalletList, connectionError,
                          isConnecting, pendingWallet, lastErrorRef>>)
    ELSE /\ ENABLED closeWalletList
         /\ ~ENABLED (/\ closeWalletList
                      /\ ~(/\ showWalletList' = FALSE
                           /\ connectionError' = Null
                           /\ pendingWallet' = Null
                           /\ UNCHANGED <<walletState, isConnecting, lastErrorRef>>))

\* connecting in the flex layout, with the list open and its Close button
\* rendered
ConnectingWithCloseButton ==
    /\ isConnecting
    /\ CloseButtonRendered
    /\ showWalletList
    /\ pendingWallet = "beta"

\* C17: a click on Connect while isConnecting changes nothing: the list stays
\* open or closed as it was, connectionError and pendingWallet are untouched.
\* Outside Connecting it clears connectionError and pendingWallet, and toggles
\* the list in the dropdown layout or opens it in the flex layout.
OpenIgnoredWhileConnecting ==
    IF isConnecting
    THEN ~ENABLED (/\ ClickConnectButton
                   /\ <<walletState, showWalletList, connectionError,
                        isConnecting, pendingWallet, lastErrorRef>>'
                      # <<walletState, showWalletList, connectionError,
                          isConnecting, pendingWallet, lastErrorRef>>)
    ELSE ConnectButtonRendered
         => /\ ENABLED ClickConnectButton
            /\ ~ENABLED (/\ ClickConnectButton
                         /\ ~(/\ connectionError' = Null
                              /\ pendingWallet' = Null
                              /\ showWalletList' =
                                     (IF props.listLayout = "dropdown"
                                      THEN ~showWalletList ELSE TRUE)
                              /\ UNCHANGED <<walletState, isConnecting,
                                             lastErrorRef>>))

\* connecting in the dropdown layout, with the list open under the disabled
\* Connect button
ConnectingUnderDisabledButton ==
    /\ isConnecting
    /\ isDropdownLayout
    /\ ConnectButtonRendered
    /\ ConnectButtonDisabled
    /\ showWalletList
    /\ pendingWallet = "beta"

----------------------------------------------------------------------------
(* The messages: claims C18 to C20 *)

\* C18: onConnectError hands showErrorOnce the text that onConnectWallet
\* hands it for the same condition, wallet and network: the not-installed
\* text for an error it takes for a missing wallet, the network-mismatch text
\* for an error it takes for a wrong network; and it records that text in
\* connectionError just as onConnectWallet does.
WidgetTextSameAsNegotiatorText ==
    [][\A walletName \in WalletNames, error \in WidgetErrors :
          onConnectError(walletName, error)
          => /\ WidgetErrorBranches[error] = "notInstalled"
                  => lastErrorRef'.message = NotInstalledMessage(walletName)
             /\ WidgetErrorBranches[error] = "wrongNetwork"
                  => /\ lastErrorRef'.message = NetworkMismatchMessage
                     /\ connectionError' \in {Null, NetworkMismatchMessage}]_vars

\* C19, as the specification states it: an invocation that ends in the outer
\* catch block leaves "Error connecting to <name>: <error message>" in
\* connectionError, with the message of whatever was thrown.
CaughtErrorMessageRecorded ==
    [][(trace' # trace /\ trace'.outcome = "Error")
       => connectionError' = "Error connecting to " \o trace'.walletName
                                 \o ": " \o trace'.error.message]_vars

\* C19, amended: a rejection of enable(), getNetworkId() or
\* getRewardAddresses() that reaches the outer catch block ends the
\* invocation with connectionError "Error connecting to <name>: <message>",
\* where <message> is the rejection's message if it is an Error and "Unknown
\* error" if it is not; the invocation connects nothing: the session is not
\* connecting, and is not connected and holds no handle unless it was
\* connected before.
CaughtErrorOrUnknownRecorded ==
    [][(trace' # trace /\ trace'.outcome = "Error")
       => /\ connectionError' =
                 "Error connecting to " \o trace'.walletName \o ": "
                     \o (IF trace'.error.isError THEN trace'.error.message
                         ELSE "Unknown error")
          /\ ~isConnecting'
          /\ pendingWallet' = Null
          /\ trace'.connected = NotConnected
          /\ walletState' = walletState
          /\ ~walletState.isConnected
               => ~walletState'.isConnected /\ walletState'.walletApi = NoApi]_vars

\* a rejection with a value that is not an Error has ended the invocation
UnknownErrorRecorded ==
    /\ trace.outcome = "Error"
    /\ trace.error = NotAnError
    /\ connectionError = "Error connecting to beta: Unknown error"
    /\ ~walletState.isConnected

\* the rejections whose message contains "account changed" in some casing
AccountChangedInAnyCase ==
    {error \in QueryErrors :
        /\ error.isError
        /\ Includes(ToLowerCase(error.message), "account changed")}

\* C20: a getRewardAddresses() on the handle of the first enable() that is
\* rejected with a message containing "account changed" in any letter casing
\* is not what the invocation ends with: the invocation goes on to a backoff
\* and another query, or to the second enable().
AccountChangedInAnyCaseRetried ==
    \A i \in 1..Len(trace.queries) :
        (/\ i <= 3
         /\ ~trace.queries[i].ok
         /\ trace.queries[i].error \in AccountChangedInAnyCase)
        => ~(/\ trace.outcome = "Error"
             /\ Len(trace.queries) = i
             /\ trace.enables = 1
             /\ trace.error = trace.queries[i].error)

----------------------------------------------------------------------------
(* Cancellation and the stored handle: claims C21 and C22 *)

\* C21: nothing cancels an invocation of onConnectWallet.  No other handler
\* (a click, an outside click that closes the list, a disconnect, an
\* onConnectError) touches a suspended invocation, which can always go on and,
\* with a provider that answers, ends; and when it ends in success the
\* session is connected with its result and onConnect is called with it,
\* whatever ran while it was suspended.
NoCancellation ==
    /\ [][\A c \in Calls :
             (InFlight(c) /\ ~Resume(c)) => calls'[c] = calls[c]]_vars
    /\ [](\A c \in Calls : InFlight(c) => ENABLED Resume(c))
    /\ [][(trace' # trace /\ trace'.outcome = "Connected")
          => /\ walletState' =
                    [isConnected |-> TRUE,
                     walletName |-> trace'.walletName,
                     walletApi |-> trace'.connected.walletApi,
                     stakeAddress |-> trace'.connected.stakeAddress]
             /\ props.hasOnConnect
                  => /\ Len(trace'.notified) = 1
                     /\ trace'.notified[1].callback = "onConnect"
                     /\ trace'.notified[1].walletApi = walletState'.walletApi]_vars
    /\ (trace.outcome = "running") ~> (trace.outcome # "running")

\* disconnect() has just run while the invocation awaits
\* getRewardAddresses(), and the invocation can still connect the session and
\* call onConnect
StaleSuccessAfterDisconnect ==
    /\ onDisconnectCalls = 1
    /\ calls["observed"].pc = "query"
    /\ ~walletState.isConnected
    /\ props.hasOnConnect
    /\ ENABLED (/\ AfterGetRewardAddresses("observed")
                /\ walletState'.isConnected
                /\ trace'.outcome = "Connected"
                /\ Len(trace'.notified) = 1)

\* C22: when the three queries on the handle of the first enable() were
\* rejected with "account changed" and the invocation connects through the
\* second enable(), the handle it stores in the session and passes to
\* onConnect is that of the first enable(), the stake address is the first of
\* the list the query on the second handle resolved to, and the second handle
\* is neither stored nor passed to the host.
FirstHandleStoredAfterReEnable ==
    /\ (OriginalHandleExhausted /\ trace.outcome = "Connected")
       => /\ Len(trace.queries) = 4
          /\ trace.queries[4].api = Handle("observed", 2)
          /\ trace.connected.walletApi = Handle("observed", 1)
          /\ trace.connected.walletApi = trace.queries[1].api
          /\ trace.connected.walletApi # trace.queries[4].api
          /\ trace.connected.stakeAddress = FirstStakeAddress(trace.queries[4].value)
          /\ \A i \in 1..Len(trace.notified) :
                trace.notified[i].walletApi # Handle("observed", 2)
          /\ props.hasOnConnect
               => trace.notified[1].walletApi = Handle("observed", 1)
    /\ \A c \in Calls : walletState.walletApi # Handle(c, 2)

\* connected through the second enable(), with the address its query returned
ConnectedThroughReEnable ==
    /\ OriginalHandleExhausted
    /\ trace.outcome = "Connected"
    /\ trace.queries[4].value = <<"stake1abc">>
    /\ props.hasOnConnect
    /\ trace.notified[1].walletApi = Handle("observed", 1)
    /\ walletState.isConnected
    /\ walletState.walletApi = Handle("observed", 1)
    /\ walletState.stakeAddress = "stake1abc"

====
